---- MODULE Spec2Model ----
(***************************************************************************)
(* A model of the slab allocator of src/src/main.rs: the page pool         *)
(* (PAGE_POOL, PAGE_POOL_USED), the SlabAllocator instances that carve     *)
(* pages from it, and the intrusive free list threaded through the pool's  *)
(* memory.  Memory is modelled word by word: a free slot's link and a      *)
(* page's header are words stored at their byte address.                   *)
(***************************************************************************)
EXTENDS Integers, Sequences, FiniteSets, TLC

(***************************************************************************)
(* Program constants.                                                      *)
(***************************************************************************)
\* const PAGE_SIZE: usize = 4096
PAGE_SIZE == 4096

\* size_of::<*mut FreeObject>() on the 64-bit targets of src/sys
PTR_SIZE == 8

\* align_of::<*mut FreeObject>()
PTR_ALIGN == 8

\* size_of::<PageHeader>(): one pointer
HEADER_SIZE == 8

\* The null pointer; Option<NonNull<u8>> represents None by it.
NULL == 0

(***************************************************************************)
(* Bounds of the model.  MAX_PAGES is 16 in the source and usize has 64    *)
(* bits; both are scaled down here, the code being uniform in them.        *)
(***************************************************************************)
MAX_PAGES == 3

WORD_BITS == 16

\* calls of new in a run that only constructs
MaxNew == 2

\* handles the callers keep outstanding at a time, over all instances
MaxHeld == 3

\* frees of handles in one run
MaxFrees == 3

\* usize arithmetic is modulo this
WordMod == 2 ^ WORD_BITS

\* addr_of_mut!(PAGE_POOL): where the linker put the pool.  Pointer-aligned
\* (the casts to *mut Page and *mut FreeObject need that), not page-aligned.
pool_start == 8200

\* free: pool_start + MAX_PAGES * PAGE_SIZE
pool_end == pool_start + MAX_PAGES * PAGE_SIZE

(***************************************************************************)
(* Requested sizes drawn by the runs that allocate: an unaligned request    *)
(* with two objects per page, one object per page, and a degenerate size   *)
(* class with none.                                                        *)
(***************************************************************************)
Sizes == {2035, 4088, 4089}

\* Requested sizes drawn by the runs that only construct: small sizes, the
\* sizes of the tests, sizes around the page's usable space, and the last
\* sizes of the machine word.
AllSizes ==
    (0 .. 17) \cup {64, 1360, 2035, 2040}
      \cup (4086 .. 4097)
      \cup ((WordMod - 10) .. (WordMod - 1))

\* Addresses outside the pool handed to free (NonNull: never 0): the byte
\* before the pool and the first byte after it.
OutsidePtrs == {pool_start - 1, pool_end}

VARIABLES
    slabs,      \* the SlabAllocator instances, in order of construction
    mem,        \* PAGE_POOL's words that were written: address -> word
    used,       \* PAGE_POOL_USED
    fault,      \* "none", or how the defined run ended: "panic", "segv",
                \* "oob" (a store beyond the pool)
    held,       \* per instance, the handles its caller holds
    requested,  \* per instance, the size new was called with
    ret,        \* the last operation and what it returned
    fstack,     \* per instance, the handles freed and not yet handed out again
    rt,         \* per instance, the caller's record of a round trip
    nfrees,     \* the frees of handles, held or given up, so far
    twice       \* the addresses alloc returned while a caller still held them

vars ==
    <<slabs, mem, used, fault, held, requested, ret, fstack, rt, nfrees, twice>>

(***************************************************************************)
(* Memory.                                                                 *)
(***************************************************************************)
\* A read of a pool word: PAGE_POOL starts all zero.
Read(m, a) == IF a \in DOMAIN m THEN m[a] ELSE 0

Write(m, a, v) == [x \in DOMAIN m \cup {a} |-> IF x = a THEN v ELSE m[x]]

(***************************************************************************)
(* SlabAllocator::new                                                      *)
(***************************************************************************)
Max(a, b) == IF a >= b THEN a ELSE b

\* x & !(a - 1) for a power of two a: clears the bits below a
ClearLow(x, a) == x - (x % a)

\* (object_size + align - 1) & !(align - 1), in usize arithmetic that wraps
AlignUp(sz) ==
    ClearLow((((sz + PTR_ALIGN) % WordMod) + WordMod - 1) % WordMod, PTR_ALIGN)

\* The addition object_size + align overflows usize
AlignOverflows(sz) == sz + PTR_ALIGN >= WordMod

UsableSpace == PAGE_SIZE - HEADER_SIZE

ObjectsPerPage(object_size) == UsableSpace \div object_size

\* What new(s) does in a build with (checks) or without overflow checks:
\* a panic, or the instance.
NewOutcome(s, checks) ==
    LET o1 == Max(s, PTR_SIZE)
        o2 == AlignUp(o1)
    IN  IF checks /\ AlignOverflows(o1) THEN [panic |-> TRUE, object_size |-> 0]
        ELSE IF o2 = 0 THEN [panic |-> TRUE, object_size |-> 0]
        ELSE [panic |-> FALSE, object_size |-> o2]

NewSlab(s, checks) ==
    [object_size      |-> NewOutcome(s, checks).object_size,
     objects_per_page |-> ObjectsPerPage(NewOutcome(s, checks).object_size),
     free_list        |-> NULL,
     pages            |-> NULL]

RtOff == [on |-> FALSE, r1 |-> <<>>, fr |-> <<>>, r2 |-> <<>>, carved2 |-> FALSE]

RtFresh == [on |-> TRUE, r1 |-> <<>>, fr |-> <<>>, r2 |-> <<>>, carved2 |-> FALSE]

New(s) ==
    /\ fault = "none"
    /\ Len(slabs) < MaxNew
    /\ \E checks \in BOOLEAN :
        IF NewOutcome(s, checks).panic
        THEN /\ fault' = "panic"
             /\ ret' = [op |-> "new", inst |-> 0, arg |-> s, val |-> 0]
             /\ UNCHANGED <<slabs, held, requested, fstack, rt>>
        ELSE /\ slabs' = Append(slabs, NewSlab(s, checks))
             /\ held' = Append(held, {})
             /\ requested' = Append(requested, s)
             /\ fstack' = Append(fstack, <<>>)
             /\ rt' = Append(rt, RtFresh)
             /\ ret' = [op |-> "new", inst |-> Len(slabs) + 1, arg |-> s,
                        val |-> NewOutcome(s, checks).object_size]
             /\ UNCHANGED fault
    /\ UNCHANGED <<mem, used, nfrees, twice>>

\* The state of a process that has constructed nothing yet
InitEmpty ==
    /\ slabs = <<>>
    /\ mem = <<>>
    /\ used = 0
    /\ fault = "none"
    /\ held = <<>>
    /\ requested = <<>>
    /\ ret = [op |-> "init", inst |-> 0, arg |-> 0, val |-> 0]
    /\ fstack = <<>>
    /\ rt = <<>>
    /\ nfrees = 0
    /\ twice = {}

(***************************************************************************)
(* SlabAllocator::allocate_page                                            *)
(***************************************************************************)
\* Mutant: the check compares the counter alone, not the counter plus a page
PoolHasRoom_NoAdd(u) == ~(u > MAX_PAGES * PAGE_SIZE)

\* The check at the head of allocate_page, negated: a page is left
PoolHasRoom(u) == ~(u + PAGE_SIZE > MAX_PAGES * PAGE_SIZE)

\* Mutant: every page is taken at the pool's start
PagePtr_First(u) == pool_start

\* pool_start.add(PAGE_POOL_USED)
PagePtr(u) == pool_start + u

\* Mutant: the slots start at the page's first byte
DataStart_AtPage(page_ptr) == page_ptr

\* (page_ptr as *mut u8).add(size_of::<PageHeader>())
DataStart(page_ptr) == page_ptr + HEADER_SIZE

\* data_start.add(i * self.object_size)
SlotAddr(data_start, i, object_size) == data_start + i * object_size

\* Mutant: the slot becomes the head, its link is not written
PushSlot_NoLink(st, obj_ptr) == [free_list |-> obj_ptr, mem |-> st.mem]

\* One turn of the loop: (*obj_ptr).next = self.free_list; self.free_list = obj_ptr
PushSlot(st, obj_ptr) ==
    [free_list |-> obj_ptr, mem |-> Write(st.mem, obj_ptr, st.free_list)]

RECURSIVE CarveSlots_OneMore(_, _, _, _)
\* Mutant: the loop runs over 0..=objects_per_page
CarveSlots_OneMore(st, slab, data_start, i) ==
    IF i > slab.objects_per_page THEN st
    ELSE CarveSlots_OneMore(PushSlot(st, SlotAddr(data_start, i, slab.object_size)),
                            slab, data_start, i + 1)

RECURSIVE CarveSlots_Descending(_, _, _, _)
\* Mutant: the loop pushes the page's slots from the last to the first
CarveSlots_Descending(st, slab, data_start, i) ==
    IF i >= slab.objects_per_page THEN st
    ELSE CarveSlots_Descending(
             PushSlot(st, SlotAddr(data_start, slab.objects_per_page - 1 - i,
                                   slab.object_size)),
             slab, data_start, i + 1)

RECURSIVE CarveSlots(_, _, _, _)
\* for i in 0..self.objects_per_page, from turn i on
CarveSlots(st, slab, data_start, i) ==
    IF i >= slab.objects_per_page THEN st
    ELSE CarveSlots(PushSlot(st, SlotAddr(data_start, i, slab.object_size)),
                    slab, data_start, i + 1)

\* Mutant: the counter is not advanced
AllocatePage_NoAdvance(slab, m, u) ==
    LET page_ptr == PagePtr(u)
        st == CarveSlots([free_list |-> slab.free_list,
                          mem |-> Write(m, page_ptr, slab.pages)],
                         slab, DataStart(page_ptr), 0)
    IN  [slab |-> [slab EXCEPT !.free_list = st.free_list, !.pages = page_ptr],
         mem  |-> st.mem,
         used |-> u]

\* Mutant: the counter advances by the bytes of the slots, not by a page
AllocatePage_UsedBySlots(slab, m, u) ==
    LET page_ptr == PagePtr(u)
        st == CarveSlots([free_list |-> slab.free_list,
                          mem |-> Write(m, page_ptr, slab.pages)],
                         slab, DataStart(page_ptr), 0)
    IN  [slab |-> [slab EXCEPT !.free_list = st.free_list, !.pages = page_ptr],
         mem  |-> st.mem,
         used |-> u + HEADER_SIZE + slab.objects_per_page * slab.object_size]

\* allocate_page past its check: the instance, the memory and the counter after
AllocatePage(slab, m, u) ==
    LET page_ptr == PagePtr(u)
        st == CarveSlots([free_list |-> slab.free_list,
                          mem |-> Write(m, page_ptr, slab.pages)],
                         slab, DataStart(page_ptr), 0)
    IN  [slab |-> [slab EXCEPT !.free_list = st.free_list, !.pages = page_ptr],
         mem  |-> st.mem,
         used |-> u + PAGE_SIZE]

(***************************************************************************)
(* The caller's records.                                                   *)
(***************************************************************************)
\* The round trip of test_alloc_after_free and of main on a fresh instance:
\* the addresses of a first round of allocations (r1), the frees of them in
\* the order made (fr), the results of a second round (r2, NULL for a
\* failure), and whether an allocation of the second round moved
\* PAGE_POOL_USED.  The record is dropped (RtOff) once the instance's history
\* leaves that shape.
RtAlloc(r, v, carved) ==
    IF ~r.on THEN r
    ELSE IF r.fr = <<>>
         THEN IF v = NULL THEN RtOff ELSE [r EXCEPT !.r1 = Append(@, v)]
    ELSE IF Len(r.fr) = Len(r.r1) /\ Len(r.r2) < Len(r.r1)
         THEN [r EXCEPT !.r2 = Append(@, v), !.carved2 = @ \/ carved]
    ELSE RtOff

RtFree(r, p) ==
    IF ~r.on THEN r
    ELSE IF r.r2 = <<>> /\ Len(r.fr) < Len(r.r1)
         THEN [r EXCEPT !.fr = Append(@, p)]
    ELSE RtOff

\* Every handle outstanding, of any instance
AllHeld == UNION {held[j] : j \in DOMAIN held}

\* The values in the sequence q
Range(q) == {q[k] : k \in DOMAIN q}

\* The sequence q without the value v
Without(q, v) == SelectSeq(q, LAMBDA x : x # v)

(***************************************************************************)
(* SlabAllocator::alloc                                                    *)
(***************************************************************************)
\* Mutant: the head is not advanced
PopNext_Stuck(m, obj) == obj

\* self.free_list = (*obj).next
PopNext(m, obj) == Read(m, obj)

\* Mutant: alloc takes a page whenever the pool has one left
AllocStep_EagerCarve(slab, m, u) ==
    IF ~PoolHasRoom(u) /\ slab.free_list = NULL
    THEN [val |-> NULL, fault |-> "none", slab |-> slab, mem |-> m, used |-> u]
    ELSE LET st == IF PoolHasRoom(u)
                   THEN AllocatePage(slab, m, u)
                   ELSE [slab |-> slab, mem |-> m, used |-> u]
             obj == st.slab.free_list
         IN  IF obj = NULL
             THEN [val |-> NULL, fault |-> "segv", slab |-> st.slab,
                   mem |-> st.mem, used |-> st.used]
             ELSE [val |-> obj, fault |-> "none",
                   slab |-> [st.slab EXCEPT !.free_list = PopNext(st.mem, obj)],
                   mem |-> st.mem, used |-> st.used]

\* alloc on an instance, as a function of the state: what it returns (NULL
\* for None), whether it ends in a fault, and the instance, the memory and
\* the counter it leaves.
AllocStep(slab, m, u) ==
    IF slab.free_list = NULL /\ ~PoolHasRoom(u)
    THEN \* allocate_page()? returns None
         [val |-> NULL, fault |-> "none", slab |-> slab, mem |-> m, used |-> u]
    ELSE LET st == IF slab.free_list = NULL
                   THEN AllocatePage(slab, m, u)
                   ELSE [slab |-> slab, mem |-> m, used |-> u]
             obj == st.slab.free_list
         IN  IF obj = NULL
             THEN \* (*obj).next reads through the null pointer: on the
                  \* targets of src/sys page 0 is unmapped and the read traps
                  [val |-> NULL, fault |-> "segv", slab |-> st.slab,
                   mem |-> st.mem, used |-> st.used]
             ELSE [val |-> obj, fault |-> "none",
                   slab |-> [st.slab EXCEPT !.free_list = PopNext(st.mem, obj)],
                   mem |-> st.mem, used |-> st.used]

Alloc(i) ==
    /\ fault = "none"
    /\ i \in DOMAIN slabs
    \* the callers hold at most MaxHeld handles at a time
    /\ \/ Cardinality(AllHeld) < MaxHeld
       \/ AllocStep(slabs[i], mem, used).val = NULL
    /\ LET r == AllocStep(slabs[i], mem, used)
       IN  /\ slabs' = [slabs EXCEPT ![i] = r.slab]
           /\ mem' = r.mem
           /\ used' = r.used
           /\ fault' = r.fault
           /\ ret' = [op |-> "alloc", inst |-> i, arg |-> 0, val |-> r.val]
           /\ IF r.fault # "none"
              THEN UNCHANGED <<held, fstack, rt, twice>>
              ELSE /\ held' = [held EXCEPT ![i] =
                                 IF r.val = NULL THEN @ ELSE @ \cup {r.val}]
                   /\ twice' = twice \cup ({r.val} \cap AllHeld)
                   /\ fstack' = [fstack EXCEPT ![i] = Without(@, r.val)]
                   /\ rt' = [rt EXCEPT ![i] = RtAlloc(@, r.val, r.used # used)]
    /\ UNCHANGED <<requested, nfrees>>

(***************************************************************************)
(* SlabAllocator::free                                                     *)
(***************************************************************************)
\* Mutant: the check against pool_end is missing
InPool_NoUpper(ptr_addr) == ~(ptr_addr < pool_start)

\* The bounds check of free, negated: ptr lies in the pool
InPool(ptr_addr) == ~(ptr_addr < pool_start \/ ptr_addr >= pool_end)

\* Mutant: the link is written, the head is not moved
FreePush_Lost(slab, m, ptr) ==
    [slab |-> slab, mem |-> Write(m, ptr, slab.free_list)]

\* Mutant: the link is written as null
FreePush_NullLink(slab, m, ptr) ==
    [slab |-> [slab EXCEPT !.free_list = ptr], mem |-> Write(m, ptr, NULL)]

\* Mutant: an address that is the list's head is not pushed again
FreePush_HeadChecked(slab, m, ptr) ==
    IF ptr = slab.free_list THEN [slab |-> slab, mem |-> m]
    ELSE [slab |-> [slab EXCEPT !.free_list = ptr],
          mem  |-> Write(m, ptr, slab.free_list)]

\* (*free_obj).next = self.free_list; self.free_list = free_obj
FreePush(slab, m, ptr) ==
    [slab |-> [slab EXCEPT !.free_list = ptr],
     mem  |-> Write(m, ptr, slab.free_list)]

\* The bytes the store to (*free_obj).next writes: FreeObject is one pointer,
\* next at offset 0
StoreBytes(ptr) == ptr .. (ptr + PTR_SIZE - 1)

\* ptr as *mut FreeObject is not aligned for FreeObject
Misaligned(ptr) == ptr % PTR_ALIGN # 0

\* free.  The dereference of a misaligned free_obj is undefined: a build with
\* debug assertions panics at it, a build without performs the store (the
\* targets of src/sys store unaligned words).  A store that reaches beyond
\* PAGE_POOL is undefined too; the run ends there as "oob".
Free(i, ptr) ==
    /\ fault = "none"
    /\ i \in DOMAIN slabs
    /\ ret' = [op |-> "free", inst |-> i, arg |-> ptr, val |-> 0]
    /\ IF ~InPool(ptr)
       THEN UNCHANGED <<slabs, mem, fault>>
       ELSE \/ /\ Misaligned(ptr)
               /\ fault' = "panic"
               /\ UNCHANGED <<slabs, mem>>
            \/ /\ slabs' = [slabs EXCEPT ![i] = FreePush(slabs[i], mem, ptr).slab]
               /\ mem' = FreePush(slabs[i], mem, ptr).mem
               /\ fault' = IF \E b \in StoreBytes(ptr) : ~InPool(b)
                           THEN "oob" ELSE fault
    \* the caller gives the handle up
    /\ held' = [held EXCEPT ![i] = @ \ {ptr}]
    /\ fstack' = [fstack EXCEPT ![i] =
                    IF ptr \in held[i] THEN Append(@, ptr) ELSE @]
    /\ rt' = [rt EXCEPT ![i] = IF ptr \in held[i] THEN RtFree(@, ptr) ELSE @]
    /\ nfrees' = IF ptr \in held[i] \cup Range(fstack[i])
                 THEN nfrees + 1 ELSE nfrees
    /\ UNCHANGED <<used, requested, twice>>

(***************************************************************************)
(* What the properties speak of.                                           *)
(***************************************************************************)
\* The pool's capacity in bytes
Capacity == MAX_PAGES * PAGE_SIZE

\* The page of the pool an address lies in, counted from the pool's start
PageOf(a) == (a - pool_start) \div PAGE_SIZE

RECURSIVE Chain(_, _, _)
\* The nodes of the linked list that starts at address a, each node's first
\* word its link, at most fuel of them
Chain(m, a, fuel) ==
    IF a = NULL \/ fuel = 0 THEN <<>>
    ELSE <<a>> \o Chain(m, Read(m, a), fuel - 1)

Fuel == Cardinality(DOMAIN mem) + 1

\* An instance's free list, from its head, and its page chain
FreeList(i) == Chain(mem, slabs[i].free_list, Fuel)

PageList(i) == Chain(mem, slabs[i].pages, Fuel)

Distinct(q) == \A a, b \in DOMAIN q : a # b => q[a] # q[b]

\* The whole slot at address a of instance i lies in the pool
SlotInArena(i, a) ==
    pool_start <= a /\ a + slabs[i].object_size <= pool_start + Capacity

\* The last operation was an alloc on instance i that returned a handle
Allocated(i) ==
    ret.op = "alloc" /\ ret.inst = i /\ ret.val # NULL /\ fault = "none"

\* No slot is at once on a free list and held by a caller
C1_FreeAndHeldDisjoint ==
    \A i \in DOMAIN slabs : Range(FreeList(i)) \cap AllHeld = {}

(***************************************************************************)
(* C1.  No double hand-out: alloc never returns an address that is         *)
(* outstanding (returned by an earlier alloc of any instance and not freed *)
(* since), and no slot is at once on a free list and held by a caller.     *)
(***************************************************************************)
C1_NoDoubleHandOut ==
    /\ []C1_FreeAndHeldDisjoint
    /\ [][\A i \in DOMAIN slabs : Allocated(i)' => ret'.val \notin AllHeld]_vars

\* C1, witness: two instances hold handles, handles were freed, and an alloc
\* just returned
C1_Witness ==
    /\ ret.op = "alloc" /\ ret.val # NULL
    /\ nfrees >= 2
    /\ \E i, j \in DOMAIN slabs : i # j /\ held[i] # {} /\ held[j] # {}

(***************************************************************************)
(* C2.  Degenerate size class: on an instance with objects_per_page = 0    *)
(* every alloc returns None and none faults.                               *)
(***************************************************************************)
C2_DegenerateAllocFails ==
    (ret.op = "alloc" /\ slabs[ret.inst].objects_per_page = 0)
        => (ret.val = NULL /\ fault = "none")

(***************************************************************************)
(* C3.  Arena exhaustion is terminal: once MAX_PAGES pages are carved, an  *)
(* alloc on an instance whose free list is empty returns None, every time, *)
(* and leaves PAGE_POOL_USED and the instance's two list heads unchanged.  *)
(***************************************************************************)
C3_ExhaustionTerminal ==
    [][\A i \in DOMAIN slabs :
        (/\ used = Capacity
         /\ slabs[i].free_list = NULL
         /\ ret'.op = "alloc" /\ ret'.inst = i)
        => (/\ ret'.val = NULL
            /\ fault' = "none"
            /\ used' = used
            /\ slabs'[i].free_list = slabs[i].free_list
            /\ slabs'[i].pages = slabs[i].pages
            \* the alloc can be repeated, and fails again
            /\ AllocStep(slabs'[i], mem', used').val = NULL)]_vars

\* C3, witness: on the exhausted pool an alloc just failed on an instance
\* that has carved a page
C3_Witness ==
    /\ ret.op = "alloc" /\ ret.val = NULL /\ fault = "none"
    /\ used = Capacity
    /\ slabs[ret.inst].objects_per_page >= 1
    /\ slabs[ret.inst].pages # NULL

\* The address p is outside [pool_start, pool_start + MAX_PAGES*PAGE_SIZE)
OutOfArena(p) == p < pool_start \/ p >= pool_start + Capacity

(***************************************************************************)
(* C4.  Out-of-arena free is a no-op: free of an address outside           *)
(* [pool_start, pool_start + MAX_PAGES*PAGE_SIZE) leaves the instance's    *)
(* free list (head and length), its page list and PAGE_POOL_USED as they   *)
(* were, and the next alloc returns what it would have returned without    *)
(* the free; on a fresh instance it still succeeds.                        *)
(***************************************************************************)
C4_OutOfArenaFreeNoOp ==
    [][\A i \in DOMAIN slabs :
        (ret'.op = "free" /\ ret'.inst = i /\ OutOfArena(ret'.arg))
        => (/\ slabs'[i] = slabs[i]
            /\ FreeList(i)' = FreeList(i)
            /\ PageList(i)' = PageList(i)
            /\ used' = used
            /\ AllocStep(slabs'[i], mem', used') = AllocStep(slabs[i], mem, used)
            /\ (/\ slabs[i].pages = NULL
                /\ slabs[i].objects_per_page >= 1
                /\ used + PAGE_SIZE <= Capacity)
               => AllocStep(slabs'[i], mem', used').val # NULL)]_vars

\* C4, witness (test_free_outside_pool): an out-of-arena free just ran on a
\* fresh instance of an empty pool
C4_Witness ==
    /\ ret.op = "free" /\ OutOfArena(ret.arg)
    /\ slabs[ret.inst].pages = NULL
    /\ slabs[ret.inst].objects_per_page >= 1
    /\ used = 0

(***************************************************************************)
(* C5.  Allocate/free round trip: on a fresh instance, after N <=          *)
(* objects_per_page allocations and the frees of all N, N more allocations *)
(* each succeed and none carves a page; in each round the addresses are    *)
(* pairwise distinct and lie in the pool.                                  *)
(***************************************************************************)
C5_RoundTrip ==
    \A i \in DOMAIN slabs :
        (/\ rt[i].on
         /\ rt[i].r1 # <<>>
         /\ Len(rt[i].r1) <= slabs[i].objects_per_page
         /\ Len(rt[i].fr) = Len(rt[i].r1))
        => (/\ \A k \in DOMAIN rt[i].r2 : rt[i].r2[k] # NULL
            /\ ~rt[i].carved2
            /\ Distinct(rt[i].r1) /\ Distinct(rt[i].r2)
            /\ \A a \in Range(rt[i].r1) \cup Range(rt[i].r2) : SlotInArena(i, a))

\* C5, witness: a round trip with N = objects_per_page = 2 is complete
C5_Witness ==
    \E i \in DOMAIN slabs :
        /\ rt[i].on
        /\ slabs[i].objects_per_page = 2
        /\ Len(rt[i].r1) = 2 /\ Len(rt[i].fr) = 2 /\ Len(rt[i].r2) = 2

\* main's sequence: alloc 3, free the 3 in allocation order, alloc 2
C6_DemoOrder ==
    \A i \in DOMAIN slabs :
        (rt[i].on /\ Len(rt[i].r1) = 3 /\ rt[i].fr = rt[i].r1)
        => (/\ Len(rt[i].r2) >= 1 => rt[i].r2[1] = rt[i].r1[3]
            /\ Len(rt[i].r2) >= 2 => rt[i].r2[2] = rt[i].r1[2])

(***************************************************************************)
(* C6.  LIFO reuse: an alloc on an instance that has freed handles not yet *)
(* handed out again returns the one freed last; in main's sequence (alloc  *)
(* 3, free the 3 in allocation order, alloc 2) the two new handles are the *)
(* third and then the second of the first three.                           *)
(***************************************************************************)
C6_LifoReuse ==
    /\ []C6_DemoOrder
    /\ [][\A i \in DOMAIN slabs :
            (ret'.op = "alloc" /\ ret'.inst = i /\ fstack[i] # <<>>)
            => (fault' = "none" /\ ret'.val = fstack[i][Len(fstack[i])])]_vars

\* C6, witness: main's sequence has run on an instance
C6_Witness ==
    \E i \in DOMAIN slabs :
        /\ rt[i].on
        /\ Len(rt[i].r1) = 3 /\ rt[i].fr = rt[i].r1 /\ Len(rt[i].r2) = 2

\* The first objects_per_page + 1 allocations of instance i, no free yet
GrownOnce(i) ==
    /\ rt[i].on /\ rt[i].fr = <<>>
    /\ slabs[i].objects_per_page >= 1
    /\ Len(rt[i].r1) = slabs[i].objects_per_page + 1

(***************************************************************************)
(* C7 as claimed.  Page growth on exhaustion, carve count: objects_per_    *)
(* page + 1 allocations without a free, from a fresh instance, carve       *)
(* exactly one page.                                                       *)
(***************************************************************************)
C7_OneCarve ==
    \A i \in DOMAIN slabs : GrownOnce(i) => Len(PageList(i)) = 1

(***************************************************************************)
(* C7 as amended.  objects_per_page + 1 allocations without a free, from a *)
(* fresh instance, carve exactly two pages: the first page at the first    *)
(* allocation (up to objects_per_page allocations carve that one page),    *)
(* the second at the last.                                                 *)
(***************************************************************************)
C7_TwoCarves ==
    \A i \in DOMAIN slabs :
        /\ GrownOnce(i) => Len(PageList(i)) = 2
        /\ (/\ rt[i].on /\ rt[i].fr = <<>> /\ rt[i].r1 # <<>>
            /\ Len(rt[i].r1) <= slabs[i].objects_per_page)
           => Len(PageList(i)) = 1

\* C7, witness: an instance with two objects per page has allocated three
C7_Witness == \E i \in DOMAIN slabs : GrownOnce(i) /\ slabs[i].objects_per_page = 2

\* The first objects_per_page addresses of a fresh instance lie in one page
C8_FirstPage ==
    \A i \in DOMAIN slabs :
        (rt[i].on /\ rt[i].fr = <<>>)
        => \A k \in DOMAIN rt[i].r1 :
             k <= slabs[i].objects_per_page
                => PageOf(rt[i].r1[k]) = PageOf(rt[i].r1[1])

(***************************************************************************)
(* C8.  Page growth on exhaustion, new page: after objects_per_page        *)
(* allocations from a fresh instance without a free, one more allocation   *)
(* succeeds if the pool has an uncarved page; the first objects_per_page   *)
(* addresses lie in one page, the last one in another page, and it is no   *)
(* outstanding address.                                                    *)
(***************************************************************************)
C8_NewPage ==
    /\ []C8_FirstPage
    /\ [][\A i \in DOMAIN slabs :
            (/\ rt[i].on /\ rt[i].fr = <<>>
             /\ slabs[i].objects_per_page >= 1
             /\ Len(rt[i].r1) = slabs[i].objects_per_page
             /\ used + PAGE_SIZE <= Capacity
             /\ ret'.op = "alloc" /\ ret'.inst = i)
            => (/\ ret'.val # NULL /\ fault' = "none"
                /\ PageOf(ret'.val) # PageOf(rt[i].r1[1])
                /\ ret'.val \notin AllHeld)]_vars

\* C8, witness: the allocation after the first page's last slot has
\* returned, while another instance holds a handle
C8_Witness ==
    \E i \in DOMAIN slabs :
        /\ GrownOnce(i)
        /\ Allocated(i)
        /\ \E j \in DOMAIN slabs : j # i /\ held[j] # {}

(***************************************************************************)
(* C9.  Alignment invariant: for every requested size of the machine word, *)
(* new returns an instance with object_size >= pointer_size and            *)
(* object_size a multiple of pointer_alignment, and does not fault.        *)
(***************************************************************************)
C9_AlignmentAllSizes ==
    ret.op = "new"
        => (/\ fault = "none"
            /\ slabs[ret.inst].object_size >= PTR_SIZE
            /\ slabs[ret.inst].object_size % PTR_ALIGN = 0)

(***************************************************************************)
(* C10.  Normalization idempotence: for any requested size s, new(s) and   *)
(* new(object_size of new(s)) return the same object_size.                 *)
(***************************************************************************)
C10_Idempotent ==
    ret.op = "new"
        => (/\ fault = "none"
            /\ \A i, j \in DOMAIN slabs :
                 requested[j] = slabs[i].object_size
                    => slabs[j].object_size = slabs[i].object_size)

\* PAGE_POOL_USED counts whole pages, none beyond the pool
C11_UsedInRange ==
    /\ used % PAGE_SIZE = 0
    /\ 0 <= used
    /\ used <= MAX_PAGES * PAGE_SIZE

(***************************************************************************)
(* C11.  Arena invariant: in every reachable state PAGE_POOL_USED is a     *)
(* multiple of PAGE_SIZE and 0 <= PAGE_POOL_USED <= MAX_PAGES * PAGE_SIZE, *)
(* and it never decreases from one state to the next.                      *)
(***************************************************************************)
C11_ArenaInvariant ==
    /\ []C11_UsedInRange
    /\ [][used' >= used]_vars

\* C11, witness: the pool is carved to its last page by two instances, and
\* handles were freed since
C11_Witness ==
    /\ used = MAX_PAGES * PAGE_SIZE
    /\ nfrees >= 1
    /\ \E i, j \in DOMAIN slabs :
          i # j /\ slabs[i].pages # NULL /\ slabs[j].pages # NULL

\* x rounded up to the next multiple of a, in the integers
RoundUp(x, a) == ((x + a - 1) \div a) * a

\* The instance new(s) is to return
Constructed(slab, s) ==
    /\ slab.object_size = RoundUp(Max(s, PTR_SIZE), PTR_ALIGN)
    /\ slab.objects_per_page = (PAGE_SIZE - HEADER_SIZE) \div slab.object_size
    /\ slab.free_list = NULL
    /\ slab.pages = NULL

(***************************************************************************)
(* C12.  Construction result: new(s) returns an instance with object_size  *)
(* = round_up(max(s, pointer_size), pointer_alignment), objects_per_page = *)
(* floor((PAGE_SIZE - header_size) / object_size), an empty free list and  *)
(* no pages, and leaves the pool as it was; new(64) gives object_size 64   *)
(* and objects_per_page 63.                                                *)
(***************************************************************************)
C12_ConstructionResult ==
    ret.op = "new"
        => (/\ fault = "none"
            /\ Constructed(slabs[ret.inst], ret.arg)
            /\ ret.arg = 64 => (/\ slabs[ret.inst].object_size = 64
                                /\ slabs[ret.inst].objects_per_page = 63)
            /\ used = 0 /\ mem = <<>>)

RECURSIVE AllocVals(_, _, _, _)
\* What n allocs in a row on an instance return, nothing else in between
AllocVals(slab, m, u, n) ==
    IF n = 0 THEN <<>>
    ELSE LET r == AllocStep(slab, m, u)
         IN  <<r.val>> \o AllocVals(r.slab, r.mem, r.used, n - 1)

(***************************************************************************)
(* C13.  Undetected double free: free(p) of an address in the pool that is *)
(* already on the instance's free list is accepted without an error, and   *)
(* afterwards the free list is no chain of distinct slots: the allocs that *)
(* follow return p more than once, the earlier return still outstanding.   *)
(***************************************************************************)
C13_DoubleFree ==
    [][\A i \in DOMAIN slabs :
        (/\ ret'.op = "free" /\ ret'.inst = i
         /\ InPool(ret'.arg)
         /\ ret'.arg \in Range(FreeList(i)))
        => (/\ fault' = "none"
            /\ slabs'[i].free_list = ret'.arg
            /\ ~Distinct(FreeList(i)')
            /\ LET vs == AllocVals(slabs'[i], mem', used', Len(FreeList(i)) + 1)
               IN  Cardinality({k \in DOMAIN vs : vs[k] = ret'.arg}) >= 2)]_vars

\* C13, witness: after the free of a handle freed before, an alloc has just
\* returned an address its caller still held
C13_Witness ==
    /\ ret.op = "alloc" /\ fault = "none"
    /\ ret.val \in twice
    /\ ret.val \in held[ret.inst]
    /\ ~Distinct(FreeList(ret.inst))

\* The bytes the last operation stored to through the pointer given to free
FreeStored ==
    IF ret.op = "free" /\ InPool(ret.arg) /\ fault # "panic"
    THEN StoreBytes(ret.arg) ELSE {}

(***************************************************************************)
(* C14.  free never writes outside the pool: for every address p, aligned  *)
(* to a slot or not, free(p) does nothing or writes its link, a pointer,   *)
(* entirely within [pool_start, pool_start + MAX_PAGES * PAGE_SIZE); for p *)
(* in the pool's last pointer_size - 1 bytes no byte beyond the pool's end *)
(* is written.                                                             *)
(***************************************************************************)
C14_FreeStoresInArena ==
    \A b \in FreeStored : pool_start <= b /\ b < pool_start + MAX_PAGES * PAGE_SIZE

\* The slots of the page carved at counter u for an instance, the last slot
\* first
SlotsDescending(slab, u) ==
    [k \in 1 .. slab.objects_per_page |->
        SlotAddr(DataStart(PagePtr(u)), slab.objects_per_page - k,
                 slab.object_size)]

(***************************************************************************)
(* C15.  Carve order: a carve pushes the new page's slots in ascending     *)
(* slot order, so right after it the free list holds the page's slots from *)
(* the last (head) to the first (deepest), and the objects_per_page allocs *)
(* from there on, no free in between, return the page's slots in strictly  *)
(* descending address order, slot objects_per_page - 1 first, slot 0 last. *)
(***************************************************************************)
C15_CarveOrder ==
    [][\A i \in DOMAIN slabs :
        (ret'.op = "alloc" /\ ret'.inst = i /\ used' # used)
        => LET opp  == slabs[i].objects_per_page
               page == SlotsDescending(slabs[i], used)
               ap   == AllocatePage(slabs[i], mem, used)
               vs   == AllocVals(slabs[i], mem, used, opp)
           IN  /\ Chain(ap.mem, ap.slab.free_list, opp + 1) = page
               /\ vs = page
               /\ \A k \in 1 .. (opp - 1) : vs[k] > vs[k + 1]
               /\ opp >= 1 => (/\ ret'.val = page[1]
                               /\ FreeList(i)' = Tail(page))]_vars

\* C15, witness: an instance with two slots a page, whose page is not the
\* pool's first, has handed out the page's second slot and then its first
C15_Witness ==
    \E i \in DOMAIN slabs :
        /\ slabs[i].objects_per_page = 2
        /\ slabs[i].pages # NULL /\ slabs[i].pages # pool_start
        /\ rt[i].on /\ rt[i].fr = <<>>
        /\ rt[i].r1 = SlotsDescending(slabs[i], slabs[i].pages - pool_start)
        /\ ret.op = "alloc" /\ ret.inst = i

(***************************************************************************)
(* C16.  Pages are carved only on an empty free list: an alloc on an       *)
(* instance whose free list is not empty leaves PAGE_POOL_USED and the     *)
(* instance's page-list head as they were and only pops the free list's    *)
(* head; PAGE_POOL_USED advances, by exactly PAGE_SIZE, only in an alloc   *)
(* that found its free list empty; free changes neither PAGE_POOL_USED nor *)
(* any page-list head.                                                     *)
(***************************************************************************)
C16_CarveOnlyOnEmpty ==
    [][/\ \A i \in DOMAIN slabs :
            (ret'.op = "alloc" /\ ret'.inst = i /\ slabs[i].free_list # NULL)
            => (/\ used' = used
                /\ ret'.val = slabs[i].free_list
                /\ slabs' = [slabs EXCEPT
                               ![i].free_list = Read(mem, slabs[i].free_list)]
                /\ mem' = mem)
       /\ used' # used
            => (/\ ret'.op = "alloc"
                /\ slabs[ret'.inst].free_list = NULL
                /\ used' = used + PAGE_SIZE)
       /\ ret'.op = "free"
            => (/\ used' = used
                /\ \A j \in DOMAIN slabs : slabs'[j].pages = slabs[j].pages)]_vars

\* C16, witness: with two pages carved, an instance that got back all the
\* handles it had given out has just handed one out again without carving
C16_Witness ==
    \E i \in DOMAIN slabs :
        /\ Allocated(i)
        /\ rt[i].on /\ rt[i].r2 # <<>> /\ ~rt[i].carved2
        /\ used = 2 * PAGE_SIZE

\* No page is in the page chains of two instances
C17_PagesDisjoint ==
    \A i, j \in DOMAIN slabs :
        i < j => Range(PageList(i)) \cap Range(PageList(j)) = {}

(***************************************************************************)
(* C17.  Instance independence: with several instances sharing the pool,   *)
(* each freeing only handles it has outstanding, the pages carved by       *)
(* different instances are disjoint, and an alloc or free on one instance  *)
(* changes no other instance's free list, page chain, object_size or       *)
(* objects_per_page: of what another instance observes, one instance's     *)
(* operation changes PAGE_POOL_USED alone.                                 *)
(***************************************************************************)
C17_InstanceIndependence ==
    /\ []C17_PagesDisjoint
    \* the other instance's fields, and every link of its two lists, stay
    /\ [][ret'.op \in {"alloc", "free"}
            => \A j \in DOMAIN slabs \ {ret'.inst} :
                 /\ slabs'[j] = slabs[j]
                 /\ \A a \in Range(FreeList(j)) \cup Range(PageList(j)) :
                      Read(mem', a) = Read(mem, a)]_vars

\* C17, witness: an instance has just been given back a handle while
\* another instance, which carved the page before or after, holds a handle
\* and has a free slot
C17_Witness ==
    /\ ret.op = "free" /\ InPool(ret.arg) /\ fault = "none"
    /\ \E j \in DOMAIN slabs :
          /\ j # ret.inst
          /\ held[j] # {}
          /\ FreeList(j) # <<>>
          /\ PageList(ret.inst) # <<>>

RECURSIVE PagesOfFirst(_)
\* The pages in the page chains of the first n instances, counted
PagesOfFirst(n) ==
    IF n = 0 THEN 0 ELSE Len(PageList(n)) + PagesOfFirst(n - 1)

(***************************************************************************)
(* C18.  Slot conservation: with every free releasing a handle outstanding *)
(* from the same instance, in every reachable state and for each instance  *)
(* the length of its free list plus the number of its outstanding handles  *)
(* is objects_per_page times the number of pages in its page chain, its    *)
(* free list is acyclic with pairwise distinct nodes, and PAGE_SIZE times  *)
(* the pages carved by all instances is PAGE_POOL_USED.                    *)
(***************************************************************************)
C18_SlotConservation ==
    /\ \A i \in DOMAIN slabs :
          /\ Len(FreeList(i)) + Cardinality(held[i])
                = slabs[i].objects_per_page * Len(PageList(i))
          /\ Distinct(FreeList(i))
          \* the walk ended at the null link, not at the end of its fuel
          /\ Len(FreeList(i)) < Fuel
          /\ Len(PageList(i)) < Fuel
    /\ PAGE_SIZE * PagesOfFirst(Len(slabs)) = used

\* C18, witness: an instance with two pages holds handles and has free
\* slots, one of them freed, while another instance has a page too
C18_Witness ==
    \E i, j \in DOMAIN slabs :
        /\ i # j
        /\ Len(PageList(i)) = 2 /\ Len(PageList(j)) >= 1
        /\ slabs[i].objects_per_page = 2
        /\ held[i] # {}
        /\ fstack[i] # <<>>
        /\ Len(FreeList(i)) >= 2

\* The address a is slot n of a page that instance i carved
IsSlot(i, a, pg, n) ==
    /\ (pg - pool_start) % PAGE_SIZE = 0
    /\ pool_start <= pg /\ pg - pool_start < used
    /\ a = pg + HEADER_SIZE + n * slabs[i].object_size

(***************************************************************************)
(* C19.  Returned addresses are whole slots inside a page's data region:   *)
(* with every free releasing a handle outstanding from the same instance,  *)
(* every address alloc returned is pool_start + k*PAGE_SIZE + header_size  *)
(* + n*object_size for a page k carved by that instance (k*PAGE_SIZE <     *)
(* PAGE_POOL_USED) and an n < objects_per_page; the slot [address, address *)
(* + object_size) overlaps no page header, does not cross its page's end   *)
(* and overlaps no other slot.                                             *)
(***************************************************************************)
C19_WholeSlots ==
    \A i \in DOMAIN slabs : \A a \in held[i] :
        /\ \E pg \in Range(PageList(i)) :
             \E n \in 0 .. (slabs[i].objects_per_page - 1) :
                /\ IsSlot(i, a, pg, n)
                /\ pg + HEADER_SIZE <= a
                /\ a + slabs[i].object_size <= pg + PAGE_SIZE
        /\ \A j \in DOMAIN slabs :
             \A b \in (held[j] \cup Range(FreeList(j))) \ {a} :
                \/ a + slabs[i].object_size <= b
                \/ b + slabs[j].object_size <= a

\* C19, witness: alloc has just returned the second slot of the pool's
\* second page, with handles of another instance outstanding
C19_Witness ==
    \E i \in DOMAIN slabs :
        /\ Allocated(i)
        /\ ret.val = pool_start + PAGE_SIZE + HEADER_SIZE + slabs[i].object_size
        /\ \E j \in DOMAIN slabs : j # i /\ held[j] # {}

(***************************************************************************)
(* The runs.                                                               *)
(***************************************************************************)
\* The instances a caller has constructed, one per object size it needs:
\* new touches nothing but the instance it returns, so the runs that
\* allocate start after it.  Instances differ by nothing but their size, and
\* are taken in order of size.
SizeSeqs ==
    {q \in UNION {[1 .. n -> Sizes] : n \in 1 .. Cardinality(Sizes)} :
        \A j \in 1 .. (Len(q) - 1) : q[j] < q[j + 1]}

Init ==
    /\ \E q \in SizeSeqs :
        /\ slabs = [j \in DOMAIN q |-> NewSlab(q[j], FALSE)]
        /\ requested = q
        /\ held = [j \in DOMAIN q |-> {}]
        /\ fstack = [j \in DOMAIN q |-> <<>>]
        /\ rt = [j \in DOMAIN q |-> RtFresh]
    /\ mem = <<>>
    /\ used = 0
    /\ fault = "none"
    /\ ret = [op |-> "init", inst |-> 0, arg |-> 0, val |-> 0]
    /\ nfrees = 0
    /\ twice = {}

AllocObj == \E i \in DOMAIN slabs : Alloc(i)

\* free of a handle the caller holds from that instance
FreeHeld ==
    /\ nfrees < MaxFrees
    /\ \E i \in DOMAIN slabs : \E p \in held[i] : Free(i, p)

\* free of an address outside the pool
FreeOutside == \E i \in DOMAIN slabs : \E p \in OutsidePtrs : Free(i, p)

Next == AllocObj \/ FreeHeld \/ FreeOutside

Spec == Init /\ [][Next]_vars

\* Addresses in the pool's last pointer_size - 1 bytes.  No slot of the size
\* classes of Sizes has its link there, nor any page header: a store at one
\* of them overlaps no word of mem.
EdgePtrs == {pool_end - (PTR_SIZE - 1), pool_end - 1}

\* free of a handle that was freed already and not handed out since
FreeStale ==
    /\ nfrees < MaxFrees
    /\ \E i \in DOMAIN slabs : \E p \in Range(fstack[i]) : Free(i, p)

\* free of an address at the pool's end
FreeEdge == \E i \in DOMAIN slabs : \E p \in EdgePtrs : Free(i, p)

NextMisuse == AllocObj \/ FreeHeld \/ FreeStale \/ FreeEdge

\* One instance, of any of the size classes
InitMisuse == Init /\ Len(slabs) = 1

\* The runs of a caller that also frees what it does not hold
SpecMisuse == InitMisuse /\ [][NextMisuse]_vars

NewAny == \E s \in AllSizes : New(s)

SpecNew == InitEmpty /\ [][NewAny]_vars
====
